---- MODULE Spec2Model ----
(***************************************************************************)
(* Gesture interpreter of the Hand-Gesture particle toy: the MediaPipe     *)
(* hands.onResults callback of gestures.js (src/unnamed/part_002) and the  *)
(* calibrate key of main.js (src/unnamed/part_008), with the pinch charge  *)
(* and shape switch of particles.js (src/particles.js), the quality        *)
(* adaptation of DynamicBackground (src/unnamed/part_002) and the panel of *)
(* DynamicBackgroundUI (src/unnamed/part_000).                             *)
(*                                                                         *)
(* Numbers.  JavaScript doubles are modelled in fixed point:               *)
(*   coordinates, finger distances, palm width, openness : 1.0 = 1000      *)
(*   pinch distance, pinch thresholds, position          : 1.0 = 1000000   *)
(*   pinch confidence                                    : 1.0 = 1000      *)
(*   gestureConfidence                                   : 1.0 = 100000000 *)
(*   pinch charge level                                  : 1.0 = 100       *)
(*   time                                                : milliseconds    *)
(* A quotient that is not a multiple of the unit is rounded down.          *)
(***************************************************************************)
EXTENDS Integers, Sequences, FiniteSets, TLC

\* ------------------------------------------------------------------ units
MILLI == 1000
CONF_ONE == 100000000

\* ----------------------------------------------------------------- bounds
\* frames delivered by the tracker in one run of the main specification
MaxFrames == 7
\* frames delivered in one run of the pinch-threshold specification
MaxPinchFrames == 3

\* frames delivered in one run of the hand-selection specification
MaxHandFrames == 2

\* frames delivered in one run of the classification specification
MaxFingerFrames == 2

\* frames delivered in one run of the digit-threshold specification
MaxDigitFrames == 2

\* frames delivered in one run of the motion specification
MaxMotionFrames == 3

\* performance.now() up to which the particle specifications run
MaxParticleTime == 1600

\* performance.now() up to which the held-pinch specification runs: long
\* enough for the charge to reach 1.0, where Math.min stops it, on every run
MaxHoldTime == 2500

\* performance.now() up to which the background specification runs
MaxBackgroundTime == 2100

\* --------------------------------------------------- program constants
GESTURE_HISTORY_LENGTH == 5
\* gestureSmoothing = 0.8 and the confidence factor 0.1, in tenths
gestureSmoothing == 8
confidenceSmoothing == 1
\* window.customPinchThreshold before any calibration
undefined == -1

VARIABLES
  gestureType,          \* state.gestureType
  gestureConfidence,    \* state.gestureConfidence
  pinch,                \* state.pinch
  pinchDetails,         \* state.pinchDetails
  openness,             \* state.openness
  position,             \* state.position
  handVelocity,         \* state.handVelocity
  fingerStates,         \* state.fingerStates
  gestureHistory,       \* closure array gestureHistory
  lastPinchTime,        \* closure variable lastPinchTime
  lastGestureTime,      \* closure variable lastGestureTime
  customPinchThreshold, \* window.customPinchThreshold
  now,                  \* performance.now()
  frames,               \* number of callbacks delivered so far
  lastOp,               \* which handler (and branch) ran last
  results,              \* argument of the last callback
  validLog,             \* summaries pushed by all valid frames so far
  statusElement,        \* document.getElementById('status') is an element
  threw,                \* the last callback ended in an exception
  pinchChargeLevel,     \* particles.js pinchChargeLevel
  isPinchingLastFrame,  \* particles.js isPinchingLastFrame
  particlesLastPinchTime, \* particles.js lastPinchTime
  lastUpdate,           \* particles.js performanceOptimizer.lastUpdate
  currentTemplate,      \* particles.js currentTemplate
  switchCooldown,       \* particles.js switchCooldown
  cooldownTimer,        \* time at which the pending setTimeout is due
  particleOp,           \* which particles.js handler (and branch) ran last
  lastTriggerTime,      \* time of the last pinch-triggered switch
  lastSwitchTime,       \* time at which currentTemplate last advanced
  particleCount,        \* DynamicBackground config.particleCount
  performanceMode,      \* DynamicBackground config.performanceMode
  frameCount,           \* DynamicBackground performance.frameCount
  lastFrameTime,        \* DynamicBackground performance.lastFrameTime
  currentFPS,           \* DynamicBackground performance.currentFPS
  isVisible,            \* DynamicBackgroundUI isVisible
  backgroundOp          \* which background or panel handler ran last

\* what gestures.js and the calibrate key work on
gestureVars == <<gestureType, gestureConfidence, pinch, pinchDetails, openness,
                 position, handVelocity, fingerStates, gestureHistory,
                 lastPinchTime, lastGestureTime, customPinchThreshold,
                 frames, lastOp, results, validLog, statusElement, threw>>

\* what particles.js works on
particleVars == <<pinchChargeLevel, isPinchingLastFrame,
                  particlesLastPinchTime, lastUpdate, currentTemplate,
                  switchCooldown, cooldownTimer, particleOp,
                  lastTriggerTime, lastSwitchTime>>

\* what DynamicBackground and DynamicBackgroundUI work on
backgroundVars == <<particleCount, performanceMode, frameCount,
                    lastFrameTime, currentFPS, isVisible, backgroundOp>>

vars == <<gestureVars, particleVars, backgroundVars, now>>

\* ------------------------------------------------------------ arithmetic
Min(a, b) == IF a < b THEN a ELSE b

Max(a, b) == IF a > b THEN a ELSE b

RECURSIVE SqrtSearch(_, _, _)
SqrtSearch(n, lo, hi) ==
  IF lo >= hi THEN lo
  ELSE LET mid == (lo + hi + 1) \div 2
       IN IF mid * mid <= n THEN SqrtSearch(n, mid, hi)
          ELSE SqrtSearch(n, lo, mid - 1)

\* Math.hypot on coordinates in thousandths, result in thousandths
hypot(dx, dy) == SqrtSearch(dx * dx + dy * dy, 0, 2 * MILLI)

lerp_direct(start, end, factor) == end

lerp_overshoot(start, end, factor) ==
  start + ((end - start) * (factor + 4)) \div 10

\* lerp(start, end, factor), factor in tenths
lerp(start, end, factor) == start + ((end - start) * factor) \div 10

\* --------------------------------------------------------------- landmarks
\* landmarks[i] of a hand given as a sequence of points
LM(landmarks, i) == landmarks[i + 1]

Pt(px, py) == [x |-> px, y |-> py]

AllRetracted ==
  [thumb |-> FALSE, index |-> FALSE, middle |-> FALSE, ring |-> FALSE,
   pinky |-> FALSE]

AllExtended ==
  [thumb |-> TRUE, index |-> TRUE, middle |-> TRUE, ring |-> TRUE,
   pinky |-> TRUE]

\* A 21-point hand: wrist at (wx, wy), thumb tip at distance d left of the
\* index tip, index and pinky knuckles w apart, digits extended as in fs.
Hand(wx, wy, d, w, fs) ==
  LET bx == 300
      by == 600
      len(f) == IF f THEN 200 ELSE 50
      tlen == IF fs.thumb THEN 150 ELSE 50
      indexTip == Pt(bx, by - len(fs.index))
      thumbTip == Pt(bx - d, by - len(fs.index))
      thumbBase == Pt(bx - d, by - len(fs.index) + tlen)
      middleBase == Pt(bx + w \div 3, by)
      ringBase == Pt(bx + (2 * w) \div 3, by)
      pinkyBase == Pt(bx + w, by)
      up(p, f) == Pt(p.x, p.y - len(f))
      wrist == Pt(wx, wy)
  IN [i \in 1..21 |->
        CASE i = 1 -> wrist
          [] i = 3 -> thumbBase
          [] i = 5 -> thumbTip
          [] i = 6 -> Pt(bx, by)
          [] i = 9 -> indexTip
          [] i = 10 -> middleBase
          [] i = 13 -> up(middleBase, fs.middle)
          [] i = 14 -> ringBase
          [] i = 17 -> up(ringBase, fs.ring)
          [] i = 18 -> pinkyBase
          [] i = 21 -> up(pinkyBase, fs.pinky)
          [] OTHER -> wrist]

\* A 21-point hand whose digits point from base to tip along v[digit],
\* given as <<to the right, upwards>> in thousandths.
DigitHand(v) ==
  LET base(k) == Pt(200 + 100 * k, 600)
      tip(k, d) == Pt(base(k).x + d[1], base(k).y - d[2])
  IN [i \in 1..21 |->
        CASE i = 3 -> base(0)
          [] i = 5 -> tip(0, v.thumb)
          [] i = 6 -> base(1)
          [] i = 9 -> tip(1, v.index)
          [] i = 10 -> base(2)
          [] i = 13 -> tip(2, v.middle)
          [] i = 14 -> base(3)
          [] i = 17 -> tip(3, v.ring)
          [] i = 18 -> base(4)
          [] i = 21 -> tip(4, v.pinky)
          [] OTHER -> Pt(500, 900)]

\* the same hand with its last landmark missing (20 points)
ShortHand(h) == SubSeq(h, 1, 20)

Handed(s, l) == [score |-> s, label |-> l]

Results(lms, hds) == [multiHandLandmarks |-> lms, multiHandedness |-> hds]

\* ------------------------------------------------------- helper functions
\* results.multiHandedness[i]?.score || 0.5
HandConfidence(r, i) ==
  IF i + 1 <= Len(r.multiHandedness) /\ r.multiHandedness[i + 1].score # 0
  THEN r.multiHandedness[i + 1].score
  ELSE 500

RECURSIVE BestHandLoop(_, _, _, _)
BestHandLoop(r, i, bestHandIndex, bestHandConfidence) ==
  IF i >= Len(r.multiHandLandmarks) THEN bestHandIndex
  ELSE IF HandConfidence(r, i) > bestHandConfidence
       THEN BestHandLoop(r, i + 1, i, HandConfidence(r, i))
       ELSE BestHandLoop(r, i + 1, bestHandIndex, bestHandConfidence)

BestHandIndex(r) == BestHandLoop(r, 0, 0, 0)

SelectedHand_first(r) == r.multiHandLandmarks[1]

\* const landmarks = results.multiHandLandmarks[bestHandIndex]
SelectedHand(r) == r.multiHandLandmarks[BestHandIndex(r) + 1]

\* handedness?.label || 'Unknown'
HandednessLabel(r, i) ==
  IF i + 1 <= Len(r.multiHandedness)
  THEN r.multiHandedness[i + 1].label
  ELSE "Unknown"

Dist(landmarks, a, b) ==
  hypot(LM(landmarks, a).x - LM(landmarks, b).x,
        LM(landmarks, a).y - LM(landmarks, b).y)

Farther_orEqual(landmarks, a, b, t) ==
  LET dx == LM(landmarks, a).x - LM(landmarks, b).x
      dy == LM(landmarks, a).y - LM(landmarks, b).y
  IN dx * dx + dy * dy >= t * t

\* Math.hypot(a.x - b.x, a.y - b.y) > t, without rounding the distance
Farther(landmarks, a, b, t) ==
  LET dx == LM(landmarks, a).x - LM(landmarks, b).x
      dy == LM(landmarks, a).y - LM(landmarks, b).y
  IN dx * dx + dy * dy > t * t

updateFingerStates(landmarks) ==
  [thumb  |-> Farther(landmarks, 4, 2, 100),
   index  |-> Farther(landmarks, 8, 5, 150),
   middle |-> Farther(landmarks, 12, 9, 150),
   ring   |-> Farther(landmarks, 16, 13, 150),
   pinky  |-> Farther(landmarks, 20, 17, 150)]

ExtendedFingers(fs) ==
  Cardinality({f \in {"thumb", "index", "middle", "ring", "pinky"} : fs[f]})

recognizeAdvancedGestures_threeFirst(fs) ==
  LET extendedFingers == ExtendedFingers(fs)
  IN IF extendedFingers = 0
       THEN [type |-> "fist", confidence |-> 90000000]
     ELSE IF extendedFingers = 1 /\ fs.index
       THEN [type |-> "pointing", confidence |-> 95000000]
     ELSE IF extendedFingers = 2 /\ fs.index /\ fs.middle
       THEN [type |-> "peace", confidence |-> 90000000]
     ELSE IF fs.index /\ fs.middle /\ fs.ring
       THEN [type |-> "three", confidence |-> 85000000]
     ELSE IF extendedFingers = 5
       THEN [type |-> "open_hand", confidence |-> 85000000]
     ELSE [type |-> "open_hand", confidence |-> 80000000]

recognizeAdvancedGestures_peaceLoose(fs) ==
  LET extendedFingers == ExtendedFingers(fs)
  IN IF extendedFingers = 0
       THEN [type |-> "fist", confidence |-> 90000000]
     ELSE IF extendedFingers = 1 /\ fs.index
       THEN [type |-> "pointing", confidence |-> 95000000]
     ELSE IF fs.index /\ fs.middle /\ ~fs.ring
       THEN [type |-> "peace", confidence |-> 90000000]
     ELSE IF extendedFingers = 5
       THEN [type |-> "open_hand", confidence |-> 85000000]
     ELSE IF extendedFingers = 3 /\ fs.index /\ fs.middle /\ fs.ring
       THEN [type |-> "three", confidence |-> 85000000]
     ELSE [type |-> "open_hand", confidence |-> 80000000]

recognizeAdvancedGestures_anySingle(fs) ==
  LET extendedFingers == ExtendedFingers(fs)
  IN IF extendedFingers = 0
       THEN [type |-> "fist", confidence |-> 90000000]
     ELSE IF extendedFingers = 1
       THEN [type |-> "pointing", confidence |-> 95000000]
     ELSE IF extendedFingers = 2 /\ fs.index /\ fs.middle
       THEN [type |-> "peace", confidence |-> 90000000]
     ELSE IF extendedFingers = 5
       THEN [type |-> "open_hand", confidence |-> 85000000]
     ELSE IF extendedFingers = 3 /\ fs.index /\ fs.middle /\ fs.ring
       THEN [type |-> "three", confidence |-> 85000000]
     ELSE [type |-> "open_hand", confidence |-> 80000000]

recognizeAdvancedGestures(fs) ==
  LET extendedFingers == ExtendedFingers(fs)
  IN IF extendedFingers = 0
       THEN [type |-> "fist", confidence |-> 90000000]
     ELSE IF extendedFingers = 1 /\ fs.index
       THEN [type |-> "pointing", confidence |-> 95000000]
     ELSE IF extendedFingers = 2 /\ fs.index /\ fs.middle
       THEN [type |-> "peace", confidence |-> 90000000]
     ELSE IF extendedFingers = 5
       THEN [type |-> "open_hand", confidence |-> 85000000]
     ELSE IF extendedFingers = 3 /\ fs.index /\ fs.middle /\ fs.ring
       THEN [type |-> "three", confidence |-> 85000000]
     ELSE [type |-> "open_hand", confidence |-> 80000000]

\* number of entries of the history with pinch set
RecentPinches(history) ==
  Cardinality({k \in 1..Len(history) : history[k].pinch})

SustainedPinch_lastTwo(history) ==
  /\ Len(history) >= 2
  /\ \A k \in (Len(history) - 1)..Len(history) : history[k].pinch

\* gestureHistory.length >= 3 && gestureHistory.slice(-3).every(g => g.pinch)
SustainedPinch(history) ==
  /\ Len(history) >= 3
  /\ \A k \in (Len(history) - 2)..Len(history) : history[k].pinch

AdaptiveThreshold_noClamp(palmWidth) == 45 * (palmWidth * 3)

AdaptiveThreshold_wideClamp(palmWidth) ==
  45 * Max(600, Min(1200, palmWidth * 3))

\* baseThreshold * handSizeFactor, in millionths
AdaptiveThreshold(palmWidth) ==
  LET baseThreshold == 45
      handSizeFactor == Max(800, Min(1200, palmWidth * 3))
  IN baseThreshold * handSizeFactor

FinalThreshold_blend(custom, adaptiveThreshold) ==
  IF custom # undefined /\ custom # 0
  THEN (custom + adaptiveThreshold) \div 2
  ELSE adaptiveThreshold

\* window.customPinchThreshold || adaptiveThreshold
FinalThreshold(custom, adaptiveThreshold) ==
  IF custom # undefined /\ custom # 0 THEN custom ELSE adaptiveThreshold

PinchConfidence_noClamp(confidence, stabilityWeight, sustainedWeight) ==
  confidence + stabilityWeight + sustainedWeight

\* Math.min(1, confidence + stabilityWeight + sustainedWeight)
PinchConfidence(confidence, stabilityWeight, sustainedWeight) ==
  Min(MILLI, confidence + stabilityWeight + sustainedWeight)

detectEnhancedPinch(landmarks, history, custom) ==
  LET distance == Dist(landmarks, 4, 8) * MILLI
      palmWidth == Dist(landmarks, 5, 17)
      finalThreshold == FinalThreshold(custom, AdaptiveThreshold(palmWidth))
      isTouching == distance < finalThreshold
      confidence == Max(0, MILLI - (distance * MILLI) \div (finalThreshold * 2))
      stabilityWeight == Min(300, RecentPinches(history) * 100)
      sustainedWeight == IF SustainedPinch(history) THEN 200 ELSE 0
  IN [isPinching |-> isTouching,
      distance |-> distance,
      threshold |-> finalThreshold,
      confidence |-> PinchConfidence(confidence, stabilityWeight,
                                     sustainedWeight),
      isCustomThreshold |-> (custom # undefined /\ custom # 0)]

calculateHandOpenness(landmarks, fs) ==
  LET baseOpenness == Min(MILLI, Dist(landmarks, 0, 12) * 2)
      fingerFactor == (ExtendedFingers(fs) * MILLI) \div 5
  IN Min(MILLI, (baseOpenness + fingerFactor) \div 2)

deltaTime_frameFloor(currentTime, last) == Max(16, currentTime - last)

\* Math.max(1, currentTime - lastGestureTime)
deltaTime(currentTime, last) == Max(1, currentTime - last)

PushHistory_offByOne(history, entry) ==
  LET pushed == Append(history, entry)
  IN IF Len(pushed) >= GESTURE_HISTORY_LENGTH THEN Tail(pushed) ELSE pushed

\* gestureHistory.push(entry); if (length > GESTURE_HISTORY_LENGTH) shift()
PushHistory(history, entry) ==
  LET pushed == Append(history, entry)
  IN IF Len(pushed) > GESTURE_HISTORY_LENGTH THEN Tail(pushed) ELSE pushed

\* ------------------------------------------------------------------ frames
PinchPose == Hand(500, 900, 30, 200, AllRetracted)

OpenPose == Hand(550, 500, 120, 400, AllExtended)

\* frames of the main specification
Frames ==
  { Results(<<>>, <<>>),
    Results(<<ShortHand(PinchPose)>>, <<Handed(900, "Right")>>),
    Results(<<PinchPose>>, <<Handed(900, "Right")>>),
    Results(<<OpenPose>>, <<Handed(800, "Left")>>),
    Results(<<PinchPose, ShortHand(OpenPose)>>,
            <<Handed(600, "Right"), Handed(900, "Left")>>) }

\* thumb-index distances and palm widths of the pinch-threshold specification
PinchDistances == {0, 30, 34, 36, 40, 54}

PalmWidths == {200, 300, 450}

PinchFrames ==
  { Results(<<Hand(500, 900, d, w, AllRetracted)>>, <<Handed(900, "Right")>>) :
      d \in PinchDistances, w \in PalmWidths }
  \cup { Results(<<>>, <<>>),
         Results(<<ShortHand(PinchPose)>>, <<Handed(900, "Right")>>) }

\* hands and reported scores of the hand-selection specification
HandPoses == {PinchPose, OpenPose, ShortHand(PinchPose)}

Scores == {0, 300, 900}

\* one or two hands, the first labelled Left and the second Right; the last
\* frame has no handedness entry for its second hand
HandFrames ==
  { Results(<<p1, p2>>, <<Handed(s1, "Left"), Handed(s2, "Right")>>) :
      p1 \in HandPoses, p2 \in HandPoses, s1 \in Scores, s2 \in Scores }
  \cup { Results(<<p1>>, <<Handed(s1, "Left")>>) :
           p1 \in HandPoses, s1 \in Scores }
  \cup { Results(<<>>, <<>>),
         Results(<<PinchPose, OpenPose>>, <<Handed(300, "Left")>>) }

\* the 32 combinations of extended digits
FingerCombos == [{"thumb", "index", "middle", "ring", "pinky"} -> BOOLEAN]

FingerPose(fs) == Hand(500, 900, 60, 300, fs)

FingerFrames ==
  { Results(<<FingerPose(fs)>>, <<Handed(900, "Right")>>) :
      fs \in FingerCombos }
  \cup { Results(<<>>, <<>>),
         Results(<<ShortHand(PinchPose)>>, <<Handed(900, "Right")>>) }

Digits == {"thumb", "index", "middle", "ring", "pinky"}

\* base-to-tip vectors: at, just above and between the two thresholds,
\* upright and slanted (90, 120 has length 150; 100, 112 a little more)
DigitVectors ==
  {<<0, 50>>, <<0, 100>>, <<0, 101>>, <<0, 150>>, <<0, 151>>, <<90, 120>>,
   <<100, 112>>}

\* all digits along one vector, or one digit along it and the others short
DigitPoses ==
  { [f \in Digits |-> d] : d \in DigitVectors }
  \cup { [f \in Digits |-> IF f = g THEN d ELSE <<0, 50>>] :
           g \in Digits, d \in DigitVectors }

DigitFrames ==
  { Results(<<DigitHand(v)>>, <<Handed(900, "Right")>>) : v \in DigitPoses }
  \cup { Results(<<>>, <<>>),
         Results(<<ShortHand(PinchPose)>>, <<Handed(900, "Right")>>) }

\* wrists in the corners of the camera frame and near its centre
Wrists == {<<0, 0>>, <<0, 1000>>, <<1000, 0>>, <<1000, 1000>>, <<550, 500>>}

MotionFrames ==
  { Results(<<Hand(c[1], c[2], 60, 300, AllRetracted)>>,
            <<Handed(900, "Right")>>) : c \in Wrists }
  \cup { Results(<<>>, <<>>),
         Results(<<ShortHand(PinchPose)>>, <<Handed(900, "Right")>>) }

\* milliseconds between two callbacks of the motion specification
MotionDeltas == {0, 16}

\* milliseconds between two calls of updateParticles: the same timestamp,
\* one animation frame, a pause longer than the pinch cooldown
TickDeltas == {0, 16, 816}

\* milliseconds between two calls of updateParticles while the pinch is
\* held: one animation frame, or two when a frame is dropped
HoldDeltas == {16, 32}

\* milliseconds between two calls of DynamicBackground.update: one
\* animation frame, a stall of a second
BackgroundDeltas == {16, 1000}

\* values of the density slider and of direct calls
Densities == {0, 100, 150, 2000, 2500}

Modes == {"auto", "low", "medium", "high"}

\* milliseconds between two callbacks
Deltas == {16}

\* ------------------------------------------------------------------- Init
\* main.js gestureState literal, then initHandTracking(state), on a page
\* with or without an element of id 'status'
InitAnyPage ==
  /\ gestureType = "none"
  /\ gestureConfidence = 0
  /\ pinch = FALSE
  /\ pinchDetails = [distance |-> 0, threshold |-> 0, confidence |-> 0,
                     handedness |-> "undefined"]
  /\ openness = 0
  /\ position = [x |-> 0, y |-> 0]
  /\ handVelocity = [x |-> 0, y |-> 0]
  /\ fingerStates = AllRetracted
  /\ gestureHistory = <<>>
  /\ lastPinchTime = 0
  /\ lastGestureTime = 0
  /\ customPinchThreshold = undefined
  /\ now = 0
  /\ frames = 0
  /\ lastOp = "init"
  /\ results = Results(<<>>, <<>>)
  /\ validLog = <<>>
  /\ statusElement \in BOOLEAN
  /\ threw = FALSE
  /\ pinchChargeLevel = 0
  /\ isPinchingLastFrame = FALSE
  /\ particlesLastPinchTime = 0
  /\ lastUpdate = 0
  /\ currentTemplate = 0
  /\ switchCooldown = FALSE
  /\ cooldownTimer = undefined
  /\ particleOp = "init"
  /\ lastTriggerTime = undefined
  /\ lastSwitchTime = undefined
  /\ particleCount = 800
  /\ performanceMode = "auto"
  /\ frameCount = 0
  /\ lastFrameTime = 0
  /\ currentFPS = 60
  /\ isVisible = FALSE
  /\ backgroundOp = "init"

\* the same on the application's page, which has the status element
Init == InitAnyPage /\ statusElement = TRUE

\* ---------------------------------------------------------------- actions
\* if (statusElement) { const handType = handedness.label || 'Hand'; ... }
\* a property read on undefined is a TypeError
StatusUpdateThrows(r, bestHandIndex) ==
  statusElement /\ bestHandIndex + 1 > Len(r.multiHandedness)

\* every callback: performance.now() has advanced by dt
Deliver(r, dt) ==
  /\ now' = now + dt
  /\ frames' = frames + 1
  /\ UNCHANGED <<statusElement, particleVars, backgroundVars>>

NoHandFrame_keepsConfidence(r, dt) ==
  /\ Len(r.multiHandLandmarks) = 0
  /\ Deliver(r, dt)
  /\ gestureType' = "none"
  /\ lastOp' = "nohand"
  /\ threw' = FALSE
  /\ UNCHANGED <<gestureConfidence, pinch, pinchDetails, openness, position,
                 handVelocity, fingerStates, gestureHistory, lastPinchTime,
                 lastGestureTime, customPinchThreshold, validLog>>

NoHandFrame_clearsOverride(r, dt) ==
  /\ Len(r.multiHandLandmarks) = 0
  /\ Deliver(r, dt)
  /\ gestureType' = "none"
  /\ gestureConfidence' = 0
  /\ customPinchThreshold' = undefined
  /\ lastOp' = "nohand"
  /\ threw' = FALSE
  /\ UNCHANGED <<pinch, pinchDetails, openness, position, handVelocity,
                 fingerStates, gestureHistory, lastPinchTime,
                 lastGestureTime, validLog>>

\* if (!results.multiHandLandmarks.length) { ...; return; }
NoHandFrame(r, dt) ==
  /\ Len(r.multiHandLandmarks) = 0
  /\ Deliver(r, dt)
  /\ gestureType' = "none"
  /\ gestureConfidence' = 0
  /\ lastOp' = "nohand"
  /\ threw' = FALSE
  /\ UNCHANGED <<pinch, pinchDetails, openness, position, handVelocity,
                 fingerStates, gestureHistory, lastPinchTime,
                 lastGestureTime, customPinchThreshold, validLog>>

ShortHandFrame_pushes(r, dt) ==
  /\ Len(r.multiHandLandmarks) > 0
  /\ Len(SelectedHand(r)) < 21
  /\ Deliver(r, dt)
  /\ lastOp' = "short"
  /\ threw' = FALSE
  /\ gestureHistory' =
       Append(gestureHistory,
              [position |-> position, openness |-> openness,
               pinch |-> pinch, timestamp |-> now + dt])
  /\ UNCHANGED <<gestureType, gestureConfidence, pinch, pinchDetails,
                 openness, position, handVelocity, fingerStates,
                 lastPinchTime, lastGestureTime, customPinchThreshold,
                 validLog>>

\* if (!landmarks || landmarks.length < 21) { return; }
ShortHandFrame(r, dt) ==
  /\ Len(r.multiHandLandmarks) > 0
  /\ Len(SelectedHand(r)) < 21
  /\ Deliver(r, dt)
  /\ lastOp' = "short"
  /\ threw' = FALSE
  /\ UNCHANGED <<gestureType, gestureConfidence, pinch, pinchDetails,
                 openness, position, handVelocity, fingerStates,
                 gestureHistory, lastPinchTime, lastGestureTime,
                 customPinchThreshold, validLog>>

\* the rest of the callback, lines 73-131
ValidHandFrame(r, dt) ==
  /\ Len(r.multiHandLandmarks) > 0
  /\ Len(SelectedHand(r)) >= 21
  /\ Deliver(r, dt)
  /\ LET currentTime == now + dt
         bestHandIndex == BestHandIndex(r)
         landmarks == SelectedHand(r)
         prevPosition == position
         fs == updateFingerStates(landmarks)
         gestureData == recognizeAdvancedGestures(fs)
         pinchData == detectEnhancedPinch(landmarks, gestureHistory,
                                          customPinchThreshold)
         open == calculateHandOpenness(landmarks, fs)
         rawPosition == [x |-> (LM(landmarks, 0).x - 500) * 2 * MILLI,
                         y |-> (0 - (LM(landmarks, 0).y - 500)) * 2 * MILLI]
         pos == [x |-> lerp(position.x, rawPosition.x, gestureSmoothing),
                 y |-> lerp(position.y, rawPosition.y, gestureSmoothing)]
         dT == deltaTime(currentTime, lastGestureTime)
         entry == [position |-> pos, openness |-> open,
                   pinch |-> pinchData.isPinching, timestamp |-> currentTime]
     IN /\ fingerStates' = fs
        /\ gestureType' = gestureData.type
        /\ gestureConfidence' =
             lerp(gestureConfidence, gestureData.confidence,
                  confidenceSmoothing)
        /\ pinch' = pinchData.isPinching
        /\ pinchDetails' = [distance |-> pinchData.distance,
                            threshold |-> pinchData.threshold,
                            confidence |-> pinchData.confidence,
                            handedness |-> HandednessLabel(r, bestHandIndex)]
        /\ lastPinchTime' =
             IF pinchData.isPinching /\ currentTime - lastPinchTime > 800
             THEN currentTime ELSE lastPinchTime
        /\ openness' = open
        /\ position' = pos
        /\ handVelocity' =
             [x |-> ((pos.x - prevPosition.x) * MILLI) \div dT,
              y |-> ((pos.y - prevPosition.y) * MILLI) \div dT]
        /\ gestureHistory' = PushHistory(gestureHistory, entry)
        /\ validLog' = Append(validLog, entry)
        /\ lastGestureTime' = currentTime
        /\ threw' = StatusUpdateThrows(r, bestHandIndex)
  /\ lastOp' = "valid"
  /\ UNCHANGED customPinchThreshold

\* the callback's effect on the program for the frame r
Handle(r, dt) ==
  \/ NoHandFrame(r, dt)
  \/ ShortHandFrame(r, dt)
  \/ ValidHandFrame(r, dt)

\* hands.onResults(results => ...)
onResults(r, dt) == Handle(r, dt) /\ results' = r

Calibrate_keepsEarlier ==
  /\ lastOp' = "calibrate"
  /\ customPinchThreshold' =
       IF pinchDetails.distance > 0 /\ customPinchThreshold = undefined
       THEN (pinchDetails.distance * 12) \div 10
       ELSE customPinchThreshold
  /\ UNCHANGED <<gestureType, gestureConfidence, pinch, pinchDetails,
                 openness, position, handVelocity, fingerStates,
                 gestureHistory, lastPinchTime, lastGestureTime, now,
                 frames, results, validLog, statusElement, threw,
                 particleVars, backgroundVars>>

Calibrate_noGuard ==
  /\ lastOp' = "calibrate"
  /\ customPinchThreshold' = (pinchDetails.distance * 12) \div 10
  /\ UNCHANGED <<gestureType, gestureConfidence, pinch, pinchDetails,
                 openness, position, handVelocity, fingerStates,
                 gestureHistory, lastPinchTime, lastGestureTime, now,
                 frames, results, validLog, statusElement, threw,
                 particleVars, backgroundVars>>

\* keydown 'c' / 'C' of setupPerformanceControls
Calibrate ==
  /\ lastOp' = "calibrate"
  /\ customPinchThreshold' =
       IF pinchDetails.distance > 0
       THEN (pinchDetails.distance * 12) \div 10
       ELSE customPinchThreshold
  /\ UNCHANGED <<gestureType, gestureConfidence, pinch, pinchDetails,
                 openness, position, handVelocity, fingerStates,
                 gestureHistory, lastPinchTime, lastGestureTime, now,
                 frames, results, validLog, statusElement, threw,
                 particleVars, backgroundVars>>

\* animate: const { ..., isCustomThreshold } = gestureState.pinchDetails;
\* a field the record does not have reads as undefined, which is falsy
PinchDebugIsCustom ==
  IF "isCustomThreshold" \in DOMAIN pinchDetails
  THEN pinchDetails.isCustomThreshold
  ELSE FALSE

\* updatePinchDebug: isCustomThreshold ? 'Custom' : 'Auto'
ThresholdType == IF PinchDebugIsCustom THEN "Custom" ELSE "Auto"

Frame == \E r \in Frames, dt \in Deltas : frames < MaxFrames /\ onResults(r, dt)

Next == Frame \/ Calibrate

Spec == Init /\ [][Next]_vars

\* the same handlers driven by the frames PinchFrames
PinchFrame ==
  \E r \in PinchFrames, dt \in Deltas :
    frames < MaxPinchFrames /\ onResults(r, dt)

NextPinch == PinchFrame \/ Calibrate

SpecPinch == Init /\ [][NextPinch]_vars

\* the same handlers driven by the frames HandFrames
HandFrame ==
  \E r \in HandFrames, dt \in Deltas :
    frames < MaxHandFrames /\ onResults(r, dt)

NextHands == HandFrame \/ Calibrate

SpecHands == Init /\ [][NextHands]_vars

\* the same handlers driven by the frames FingerFrames
FingerFrame ==
  \E r \in FingerFrames, dt \in Deltas :
    frames < MaxFingerFrames /\ onResults(r, dt)

NextFingers == FingerFrame \/ Calibrate

SpecFingers == Init /\ [][NextFingers]_vars

\* the same handlers driven by the frames DigitFrames
DigitFrame ==
  \E r \in DigitFrames, dt \in Deltas :
    frames < MaxDigitFrames /\ onResults(r, dt)

NextDigits == DigitFrame \/ Calibrate

SpecDigits == Init /\ [][NextDigits]_vars

\* the same handlers driven by the frames MotionFrames
MotionFrame ==
  \E r \in MotionFrames, dt \in MotionDeltas :
    frames < MaxMotionFrames /\ onResults(r, dt)

NextMotion == MotionFrame \/ Calibrate

SpecMotion == Init /\ [][NextMotion]_vars

\* keydown 'r' / 'R': location.reload() loads the page again; the modules
\* run from the top in a new window object, whose properties and time
\* origin are new
Reload ==
  /\ gestureType' = "none"
  /\ gestureConfidence' = 0
  /\ pinch' = FALSE
  /\ pinchDetails' = [distance |-> 0, threshold |-> 0, confidence |-> 0,
                      handedness |-> "undefined"]
  /\ openness' = 0
  /\ position' = [x |-> 0, y |-> 0]
  /\ handVelocity' = [x |-> 0, y |-> 0]
  /\ fingerStates' = AllRetracted
  /\ gestureHistory' = <<>>
  /\ lastPinchTime' = 0
  /\ lastGestureTime' = 0
  /\ customPinchThreshold' = undefined
  /\ now' = 0
  /\ lastOp' = "reload"
  /\ results' = Results(<<>>, <<>>)
  /\ validLog' = <<>>
  /\ threw' = FALSE
  /\ pinchChargeLevel' = 0
  /\ isPinchingLastFrame' = FALSE
  /\ particlesLastPinchTime' = 0
  /\ lastUpdate' = 0
  /\ currentTemplate' = 0
  /\ switchCooldown' = FALSE
  /\ cooldownTimer' = undefined
  /\ particleOp' = "init"
  /\ lastTriggerTime' = undefined
  /\ lastSwitchTime' = undefined
  /\ particleCount' = 800
  /\ performanceMode' = "auto"
  /\ frameCount' = 0
  /\ lastFrameTime' = 0
  /\ currentFPS' = 60
  /\ isVisible' = FALSE
  /\ backgroundOp' = "init"
  /\ UNCHANGED <<frames, statusElement>>

\* the pinch frames with the calibrate and reload keys
NextReload == PinchFrame \/ Calibrate \/ Reload

SpecReload == Init /\ [][NextReload]_vars

PinchGateOpen_short(p, currentTime, last) == p /\ currentTime - last > 80

\* gestureState.pinch && currentTime - lastPinchTime > 800
PinchGateOpen(p, currentTime, last) == p /\ currentTime - last > 800

ChargeTriggers_half(level, wasPinching) == level >= 50 /\ ~wasPinching

\* pinchChargeLevel >= 0.8 && !isPinchingLastFrame
ChargeTriggers(level, wasPinching) == level >= 80 /\ ~wasPinching

\* switchTemplate(), called at the time currentTime
switchTemplate(currentTime) ==
  IF switchCooldown
  THEN UNCHANGED <<switchCooldown, cooldownTimer, currentTemplate,
                   lastSwitchTime>>
  ELSE /\ switchCooldown' = TRUE
       /\ cooldownTimer' = currentTime + 1200
       /\ currentTemplate' = (currentTemplate + 1) % 8
       /\ lastSwitchTime' = currentTime

\* updateParticles(gestureState) with gestureState.pinch = p, lines 228-255
updateParticles(p, dt) ==
  LET currentTime == now + dt
  IN /\ now' = currentTime
     /\ UNCHANGED <<gestureVars, backgroundVars>>
     /\ IF currentTime - lastUpdate < 16
        THEN UNCHANGED particleVars
        ELSE /\ lastUpdate' = currentTime
             /\ particleOp' = IF p THEN "pinchTick" ELSE "idleTick"
             /\ IF PinchGateOpen(p, currentTime, particlesLastPinchTime)
                THEN LET level == Min(100, pinchChargeLevel + 2)
                     IN /\ isPinchingLastFrame' = TRUE
                        /\ IF ChargeTriggers(level, isPinchingLastFrame)
                           THEN /\ particlesLastPinchTime' = currentTime
                                /\ switchTemplate(currentTime)
                                /\ pinchChargeLevel' = 0
                                /\ lastTriggerTime' = currentTime
                           ELSE /\ pinchChargeLevel' = level
                                /\ UNCHANGED <<particlesLastPinchTime,
                                               switchCooldown, cooldownTimer,
                                               currentTemplate, lastSwitchTime,
                                               lastTriggerTime>>
                ELSE /\ pinchChargeLevel' = Max(0, pinchChargeLevel - 1)
                     /\ isPinchingLastFrame' = FALSE
                     /\ UNCHANGED <<particlesLastPinchTime, switchCooldown,
                                    cooldownTimer, currentTemplate,
                                    lastSwitchTime, lastTriggerTime>>

\* animate: updateParticles(gestureState) on every animation frame
Tick ==
  \E p \in BOOLEAN, dt \in TickDeltas :
    now + dt <= MaxParticleTime /\ updateParticles(p, dt)

\* keydown ' ' of setupPerformanceControls: switchTemplate()
Space ==
  /\ switchTemplate(now)
  /\ particleOp' = "space"
  /\ UNCHANGED <<gestureVars, backgroundVars, now, pinchChargeLevel, isPinchingLastFrame,
                 particlesLastPinchTime, lastUpdate, lastTriggerTime>>

\* setTimeout(() => (switchCooldown = false), 1200), once it is due
CooldownExpires ==
  /\ switchCooldown
  /\ now >= cooldownTimer
  /\ switchCooldown' = FALSE
  /\ cooldownTimer' = undefined
  /\ particleOp' = "timeout"
  /\ UNCHANGED <<gestureVars, backgroundVars, now, pinchChargeLevel, isPinchingLastFrame,
                 particlesLastPinchTime, lastUpdate, currentTemplate,
                 lastTriggerTime, lastSwitchTime>>

NextParticles == Tick \/ Space \/ CooldownExpires

SpecParticles == Init /\ [][NextParticles]_vars

\* the animation loop while the user holds the pinch
HoldTick ==
  \E dt \in HoldDeltas :
    now + dt <= MaxHoldTime /\ updateParticles(TRUE, dt)

NextHold == HoldTick

\* requestAnimationFrame keeps calling animate.  A held tick at charge 1.0
\* with isPinchingLastFrame set changes now and lastUpdate only, so the
\* state every run has reached at MaxHoldTime repeats from there on.
SpecHold == Init /\ [][NextHold]_vars /\ WF_vars(HoldTick)

\* performance.adaptiveQuality: true; setPerformanceMode writes
\* this.adaptiveQuality, another property, and nothing writes this one
performanceAdaptiveQuality == TRUE

\* Math.round(frameCount * 1000 / elapsed)
RoundedFPS(count, elapsed) == (2 * count * 1000 + elapsed) \div (2 * elapsed)

reduceQuality(count) == Max(200, count - 100)

increaseQuality(count) == Min(1200, count + 50)

\* adaptQuality: the particle count it leaves
adaptQuality(fps, count) ==
  IF fps < 30 /\ count > 200 THEN reduceQuality(count)
  ELSE IF fps > 55 /\ count < 1200 THEN increaseQuality(count)
  ELSE count

\* DynamicBackground.update -> updatePerformance(deltaTime)
updatePerformance(dt) ==
  LET currentTime == now + dt
      counted == frameCount + 1
      elapsed == currentTime - lastFrameTime
      fps == RoundedFPS(counted, elapsed)
  IN /\ now' = currentTime
     /\ backgroundOp' = "update"
     /\ IF elapsed >= 1000
        THEN /\ currentFPS' = fps
             /\ particleCount' =
                  IF performanceMode = "auto" /\ performanceAdaptiveQuality
                  THEN adaptQuality(fps, particleCount)
                  ELSE particleCount
             /\ frameCount' = 0
             /\ lastFrameTime' = currentTime
        ELSE /\ frameCount' = counted
             /\ UNCHANGED <<currentFPS, particleCount, lastFrameTime>>
     /\ UNCHANGED <<gestureVars, particleVars, performanceMode, isVisible>>

BackgroundTick ==
  \E dt \in BackgroundDeltas :
    now + dt <= MaxBackgroundTime /\ updatePerformance(dt)

ClampedDensity_upperOnly(density) == Min(2000, density)

\* Math.max(100, Math.min(2000, density))
ClampedDensity(density) == Max(100, Min(2000, density))

setParticleDensity(density) ==
  /\ particleCount' = ClampedDensity(density)
  /\ backgroundOp' = "density"
  /\ UNCHANGED <<gestureVars, particleVars, now, performanceMode, frameCount,
                 lastFrameTime, currentFPS, isVisible>>

setPerformanceMode(mode) ==
  /\ performanceMode' = mode
  /\ particleCount' =
       CASE mode = "low" -> 200
         [] mode = "medium" -> 500
         [] mode = "high" -> 1000
         [] OTHER -> particleCount
  /\ backgroundOp' = "mode"
  /\ UNCHANGED <<gestureVars, particleVars, now, frameCount, lastFrameTime,
                 currentFPS, isVisible>>

\* the density slider and the mode select of the panel, key B
SetDensity == \E density \in Densities : setParticleDensity(density)

SetMode == \E mode \in Modes : setPerformanceMode(mode)

\* DynamicBackgroundUI.toggle(): hide() if visible, show() otherwise
toggle(visible) == ~visible

\* keydown 'm' / 'M': document has two listeners for it, the one createUI
\* added and then the one setupPerformanceControls added; each calls toggle()
KeyM ==
  /\ isVisible' = toggle(toggle(isVisible))
  /\ backgroundOp' = "keyM"
  /\ UNCHANGED <<gestureVars, particleVars, now, particleCount,
                 performanceMode, frameCount, lastFrameTime, currentFPS>>

NextBackground == BackgroundTick \/ SetDensity \/ SetMode \/ KeyM

SpecBackground == Init /\ [][NextBackground]_vars

\* the hand-selection frames on a page with or without the status element
SpecPage == InitAnyPage /\ [][NextHands]_vars

\* ------------------------------------------------------------- properties
\* what the formulas below read off the last frame delivered
SelectedLandmarks == results.multiHandLandmarks[1]

\* thumb tip to index tip of the frame's first hand, in thousandths
FrameDistance == LM(SelectedLandmarks, 8).x - LM(SelectedLandmarks, 4).x

\* index knuckle to pinky knuckle of the frame's first hand, in thousandths
FramePalmWidth == LM(SelectedLandmarks, 17).x - LM(SelectedLandmarks, 5).x

OneValidHand ==
  /\ lastOp = "valid"
  /\ Len(results.multiHandLandmarks) = 1

\* C1: after a frame whose selected hand has fewer than 21 landmarks the
\* output is exactly gestureType 'none', gestureConfidence 0, pinch false.
C1_ShortFrameIsNoHand ==
  lastOp = "short" =>
    (gestureType = "none" /\ gestureConfidence = 0 /\ pinch = FALSE)

\* C2: whenever the most recently processed frame contained zero hands,
\* pinch is false.
C2_NoHandClearsPinch == lastOp = "nohand" => pinch = FALSE

\* C3: a frame with zero hands sets gestureType to 'none' and
\* gestureConfidence to 0, and the valid frame that follows it smooths from
\* 0: its confidence is one tenth of the classification's confidence.
C3_NoHandResetsConfidence ==
  /\ [](lastOp = "nohand" => (gestureType = "none" /\ gestureConfidence = 0))
  /\ [][(lastOp = "nohand" /\ lastOp' = "valid") =>
          /\ gestureType' \in {"fist", "pointing", "peace", "three",
                                "open_hand"}
          /\ gestureType' \in {"fist", "peace"} =>
               gestureConfidence' = 9000000
          /\ gestureType' = "pointing" => gestureConfidence' = 9500000
          /\ gestureType' = "three" => gestureConfidence' = 8500000
          /\ gestureType' = "open_hand" =>
               gestureConfidence' \in {8000000, 8500000}]_vars

\* a no-hand frame arrived after the confidence had risen above 0
C3_Witness ==
  /\ lastOp = "nohand"
  /\ Len(validLog) >= 2
  /\ gestureConfidence = 0

\* C4: a frame with zero hands or with a too-short selected hand leaves
\* Gesture History unchanged, and only a valid-hand frame appends an entry.
C4_HistoryOnlyGrowsOnValid ==
  /\ [][lastOp' \in {"nohand", "short"} =>
          gestureHistory' = gestureHistory]_vars
  /\ [][gestureHistory' # gestureHistory => lastOp' = "valid"]_vars

\* a rejected frame arrived while the history was not empty
C4_Witness ==
  /\ lastOp \in {"nohand", "short"}
  /\ Len(gestureHistory) >= 1
  /\ validLog[Len(validLog)].timestamp < now

\* the last n entries of a sequence
LastEntries(log, n) == SubSeq(log, Len(log) - n + 1, Len(log))

\* C5: Gesture History is exactly the summaries of the last min(k, 5) valid
\* frames in frame order, k the number of valid frames so far; its length
\* never exceeds 5.
C5_HistoryIsLastFive ==
  /\ Len(gestureHistory) <= 5
  /\ gestureHistory =
       LastEntries(validLog, IF Len(validLog) < 5 THEN Len(validLog) ELSE 5)
  /\ \A k \in 1..(Len(validLog) - 1) :
       validLog[k].timestamp < validLog[k + 1].timestamp

\* six valid frames: the history holds frames 2..6
C5_Witness ==
  /\ Len(validLog) = 6
  /\ Len(gestureHistory) = 5
  /\ gestureHistory[1] = validLog[2]
  /\ gestureHistory[5] = validLog[6]
  /\ validLog[1] # validLog[2]

\* C6: openness, gestureConfidence and the pinch confidence stay in [0, 1].
C6_ValuesInUnitRange ==
  /\ 0 <= openness /\ openness <= 1000
  /\ 0 <= gestureConfidence /\ gestureConfidence <= 100000000
  /\ 0 <= pinchDetails.confidence /\ pinchDetails.confidence <= 1000

\* a sustained pinch: both stability boosts apply and the sum is cut to 1
C6_Witness ==
  /\ lastOp = "valid"
  /\ Len(validLog) >= 4
  /\ \A k \in (Len(validLog) - 3)..Len(validLog) : validLog[k].pinch
  /\ pinchDetails.confidence = 1000
  /\ customPinchThreshold # undefined

\* clamp(3 * w, 0.8, 1.2) * 0.045 in millionths, w in thousandths
ExpectedAdaptive(w) ==
  IF 3 * w < 800 THEN 36000
  ELSE IF 3 * w > 1200 THEN 54000
  ELSE 135 * w

\* C7: with no override, a valid frame with thumb-index distance d and palm
\* width w reports threshold clamp(3w, 0.8, 1.2) * 0.045 and pinch iff
\* d < threshold, whatever Gesture History holds.
C7_AdaptiveThreshold ==
  (OneValidHand /\ customPinchThreshold = undefined) =>
    /\ pinchDetails.distance = 1000 * FrameDistance
    /\ pinchDetails.threshold = ExpectedAdaptive(FramePalmWidth)
    /\ pinch = (1000 * FrameDistance < ExpectedAdaptive(FramePalmWidth))

\* a frame exactly at the lower clamped threshold, after an earlier pinch
C7_Witness ==
  /\ OneValidHand
  /\ customPinchThreshold = undefined
  /\ FrameDistance = 36
  /\ FramePalmWidth = 200
  /\ pinchDetails.threshold = 36000
  /\ pinch = FALSE
  /\ Len(gestureHistory) = 2
  /\ gestureHistory[1].pinch

\* C8: with an override set, a valid frame reports threshold = override,
\* whatever the palm width, and pinch iff d < override; with override 0.036
\* a frame at distance 0.034 reports pinch.
C8_OverrideReplacesThreshold ==
  (OneValidHand /\ customPinchThreshold # undefined) =>
    /\ pinchDetails.threshold = customPinchThreshold
    /\ pinch = (1000 * FrameDistance < customPinchThreshold)
    /\ (customPinchThreshold = 36000 /\ FrameDistance = 34) => pinch

\* calibrated at 0.03, then a frame at 0.034 on a wide palm
C8_Witness ==
  /\ OneValidHand
  /\ customPinchThreshold = 36000
  /\ FrameDistance = 34
  /\ FramePalmWidth = 450
  /\ pinchDetails.threshold = 36000
  /\ pinch

\* C9 as stated: before calibration a frame at distance 0.034 on the hand
\* with the lowest adaptive threshold reports pinch = false.
C9_Original ==
  (OneValidHand /\ customPinchThreshold = undefined
     /\ FrameDistance = 34 /\ FramePalmWidth = 200) => pinch = FALSE

\* C9 amended: the adaptive threshold is never below 0.036, so a frame at
\* distance 0.034 reports pinch both before calibration and with the
\* override 0.036; the override changes the outcome of a frame at distance
\* 0.04 on a palm of width 0.45, pinching before and not pinching with it.
C9_OverrideChangesOutcome ==
  /\ (OneValidHand /\ customPinchThreshold = undefined) =>
       /\ pinchDetails.threshold >= 36000
       /\ FrameDistance = 34 => pinch
       /\ (FrameDistance = 40 /\ FramePalmWidth = 450) => pinch
  /\ (OneValidHand /\ customPinchThreshold = 36000) =>
       /\ FrameDistance = 34 => pinch
       /\ FrameDistance = 40 => pinch = FALSE

\* with the override 0.036 the frame at 0.04 on the wide palm is no pinch
C9_Witness ==
  /\ OneValidHand
  /\ customPinchThreshold = 36000
  /\ FrameDistance = 40
  /\ FramePalmWidth = 450
  /\ pinch = FALSE

\* C10: calibrate with a nonzero exposed distance sets the override to 1.2
\* times that distance, replacing an earlier one, and changes nothing else.
C10_CalibrateSetsOverride ==
  [][(lastOp' = "calibrate" /\ pinchDetails.distance > 0) =>
       /\ 10 * customPinchThreshold' = 12 * pinchDetails.distance
       /\ UNCHANGED <<gestureType, gestureConfidence, pinch, pinchDetails,
                      openness, position, handVelocity, fingerStates,
                      gestureHistory>>]_vars

\* the last frame ran under an earlier override, which calibrate replaced
C10_Witness ==
  /\ lastOp = "calibrate"
  /\ pinchDetails.distance > 0
  /\ 10 * customPinchThreshold = 12 * pinchDetails.distance
  /\ pinchDetails.threshold \notin {36000, 40500, 54000}
  /\ pinchDetails.threshold # customPinchThreshold

\* C11: calibrate while the exposed pinch distance is 0 (no valid frame yet,
\* or thumb tip on index tip) leaves the override as it was.
C11_CalibrateWithoutDistance ==
  [][(lastOp' = "calibrate" /\ pinchDetails.distance = 0) =>
       /\ customPinchThreshold' = customPinchThreshold
       /\ UNCHANGED <<gestureType, gestureConfidence, pinch, pinchDetails,
                      openness, position, handVelocity, fingerStates,
                      gestureHistory>>]_vars

\* calibrate pressed on a frame with distance 0 while an override exists
C11_Witness ==
  /\ lastOp = "calibrate"
  /\ pinchDetails.distance = 0
  /\ Len(validLog) >= 2
  /\ customPinchThreshold = 36000

\* C12: only a successful calibrate changes the override; it is absent at
\* startup, no frame changes it, and once set it stays set.
C12_OnlyCalibrateSetsOverride ==
  /\ [](customPinchThreshold = undefined \/ customPinchThreshold > 0)
  /\ [][customPinchThreshold' # customPinchThreshold =>
          (lastOp' = "calibrate" /\ pinchDetails.distance > 0)]_vars
  /\ [][lastOp' \in {"nohand", "short", "valid"} =>
          customPinchThreshold' = customPinchThreshold]_vars
  /\ [][customPinchThreshold # undefined =>
          customPinchThreshold' # undefined]_vars

\* a no-hand frame processed while an override is set
C12_Witness ==
  /\ lastOp = "nohand"
  /\ customPinchThreshold = 36000
  /\ Len(validLog) >= 2

\* C13: on a valid frame processed after a calibration the polled
\* isCustomThreshold is true and the debug display shows 'Custom'; before
\* any calibration it is false and the display shows 'Auto'.
C13_CustomThresholdExposed ==
  lastOp = "valid" =>
    /\ customPinchThreshold # undefined =>
         (PinchDebugIsCustom /\ ThresholdType = "Custom")
    /\ customPinchThreshold = undefined =>
         (~PinchDebugIsCustom /\ ThresholdType = "Auto")

\* the first hand among those with the highest reported score
ExpectedBest(r) ==
  CHOOSE i \in 1..Len(r.multiHandLandmarks) :
    /\ \A j \in 1..Len(r.multiHandLandmarks) :
         r.multiHandedness[j].score <= r.multiHandedness[i].score
    /\ \A j \in 1..(i - 1) :
         r.multiHandedness[j].score < r.multiHandedness[i].score

AllScoresReported(r) ==
  /\ Len(r.multiHandLandmarks) >= 1
  /\ Len(r.multiHandedness) = Len(r.multiHandLandmarks)

\* C14: the hand processed is the first one with the highest reported score,
\* for every combination of scores, a score of 0 included.
C14_HighestScoreSelected ==
  (lastOp \in {"valid", "short"} /\ AllScoresReported(results)) =>
    LET e == ExpectedBest(results)
    IN IF Len(results.multiHandLandmarks[e]) < 21
       THEN lastOp = "short"
       ELSE /\ lastOp = "valid"
            /\ pinchDetails.handedness = results.multiHandedness[e].label

\* the frames that differ from r at most in the hands the code did not select
Variants(r) ==
  { r2 \in HandFrames :
      /\ Len(r2.multiHandLandmarks) = Len(r.multiHandLandmarks)
      /\ r2.multiHandedness = r.multiHandedness
      /\ Len(r.multiHandLandmarks) >= 1 =>
           r2.multiHandLandmarks[BestHandIndex(r) + 1] =
             r.multiHandLandmarks[BestHandIndex(r) + 1] }

\* C15: from any state, every frame that differs from the one processed only
\* in the landmarks of a non-selected hand leads to the same output state
\* and the same Gesture History.
C15_OnlySelectedHandMatters ==
  [][frames' = frames + 1 =>
       \A r2 \in Variants(results') : Handle(r2, now' - now)]_vars

\* the second of two different valid hands was selected and processed
C15_Witness ==
  /\ lastOp = "valid"
  /\ Len(results.multiHandLandmarks) = 2
  /\ BestHandIndex(results) = 1
  /\ pinchDetails.handedness = "Right"
  /\ results.multiHandLandmarks[1] # results.multiHandLandmarks[2]
  /\ Len(results.multiHandLandmarks[1]) = 21
  /\ Cardinality(Variants(results)) = 3
  /\ Len(gestureHistory) >= 2

\* the digits the last frame's hand was built with
FrameDigits ==
  CHOOSE fs \in FingerCombos : SelectedLandmarks = FingerPose(fs)

\* the set of digits extended in the last frame's hand
FrameExtended ==
  {f \in {"thumb", "index", "middle", "ring", "pinky"} : FrameDigits[f]}

\* this step replaced gestureConfidence by conf + 0.1 * (target - conf)
SmoothedToward(target) ==
  /\ 10 * gestureConfidence' <= 9 * gestureConfidence + target
  /\ 9 * gestureConfidence + target < 10 * gestureConfidence' + 10

\* C16: a valid frame with all five digits extended is classified
\* 'open_hand' with target confidence 0.85, never 'three' or 'peace'.
C16_AllFiveIsOpenHand ==
  [][(OneValidHand' /\ FrameExtended' =
        {"thumb", "index", "middle", "ring", "pinky"}) =>
       /\ gestureType' = "open_hand"
       /\ SmoothedToward(85000000)]_vars

\* an all-extended hand arrived after a frame classified otherwise
C16_Witness ==
  /\ OneValidHand
  /\ FrameDigits = AllExtended
  /\ gestureType = "open_hand"
  /\ gestureConfidence = 9000000 + (85000000 - 9000000) \div 10

\* C17 as stated: index and middle extended and ring not gives 'peace' with
\* target 0.9, whatever thumb and pinky do.
C17_Original ==
  [][(OneValidHand' /\ {"index", "middle"} \subseteq FrameExtended'
        /\ "ring" \notin FrameExtended') =>
       /\ gestureType' = "peace"
       /\ SmoothedToward(90000000)]_vars

\* C17 amended: exactly index and middle extended gives 'peace' with target
\* 0.9; index and middle extended, ring not, and thumb or pinky extended as
\* well gives 'open_hand' with target 0.8.
C17_PeaceIsExactlyTwo ==
  [][(OneValidHand' /\ {"index", "middle"} \subseteq FrameExtended'
        /\ "ring" \notin FrameExtended') =>
       IF FrameExtended' = {"index", "middle"}
       THEN gestureType' = "peace" /\ SmoothedToward(90000000)
       ELSE gestureType' = "open_hand" /\ SmoothedToward(80000000)]_vars

\* thumb, index and middle extended: classified open_hand at 0.8
C17_Witness ==
  /\ OneValidHand
  /\ FrameExtended = {"thumb", "index", "middle"}
  /\ gestureType = "open_hand"
  /\ gestureConfidence = 8000000

\* the combinations the classifier has a pattern for
ListedPatterns ==
  { {}, {"index"}, {"index", "middle"}, {"index", "middle", "ring"},
    {"thumb", "index", "middle", "ring", "pinky"} }

\* C18: for each of the 32 combinations gestureType is one of the five
\* gestures; none extended is 'fist' (0.9), exactly index 'pointing' (0.95),
\* exactly index, middle, ring 'three' (0.85), and every combination with no
\* pattern is 'open_hand' with target 0.8.
C18_ClassificationTable ==
  [][OneValidHand' =>
       /\ gestureType' \in {"fist", "pointing", "peace", "three", "open_hand"}
       /\ FrameExtended' = {} =>
            (gestureType' = "fist" /\ SmoothedToward(90000000))
       /\ FrameExtended' = {"index"} =>
            (gestureType' = "pointing" /\ SmoothedToward(95000000))
       /\ FrameExtended' = {"index", "middle", "ring"} =>
            (gestureType' = "three" /\ SmoothedToward(85000000))
       /\ FrameExtended' \notin ListedPatterns =>
            (gestureType' = "open_hand" /\ SmoothedToward(80000000))]_vars

\* a lone thumb, which matches no pattern, after a pointing frame
C18_Witness ==
  /\ OneValidHand
  /\ FrameExtended = {"thumb"}
  /\ gestureType = "open_hand"
  /\ gestureConfidence = 9500000 + (80000000 - 9500000) \div 10

RECURSIVE Pow(_, _)
Pow(b, n) == IF n = 0 THEN 1 ELSE b * Pow(b, n - 1)

\* 0.9 * (1 - 0.9^k) in units of 1/100000000, exact for k <= 7
FistConfidence(k) == 90000000 - Pow(9, k + 1) * Pow(10, 7 - k)

\* C19: every valid frame sets gestureType at once and moves
\* gestureConfidence one tenth of the way to the classification's
\* confidence; from 0, k consecutive fist frames give 0.9 * (1 - 0.9^k),
\* which is 0.2439 for k = 3 and always below 0.9.
C19_ConfidenceRecurrence ==
  /\ FistConfidence(0) = 0 /\ FistConfidence(3) = 24390000
  /\ [][(OneValidHand' /\ SelectedLandmarks' = PinchPose) =>
          /\ gestureType' = "fist"
          /\ SmoothedToward(90000000)
          /\ gestureConfidence' < 90000000]_vars
  /\ [][(OneValidHand' /\ SelectedLandmarks' = OpenPose) =>
          /\ gestureType' = "open_hand"
          /\ SmoothedToward(85000000)]_vars
  /\ [][\A k \in 0..6 :
          (OneValidHand' /\ SelectedLandmarks' = PinchPose
             /\ gestureConfidence = FistConfidence(k)) =>
            gestureConfidence' = FistConfidence(k + 1)]_vars

\* three fist frames from startup: 'fist' at confidence 0.2439
C19_Witness ==
  /\ OneValidHand
  /\ SelectedLandmarks = PinchPose
  /\ frames = 3
  /\ Len(validLog) = 3
  /\ gestureType = "fist"
  /\ gestureConfidence = 24390000

\* raw position of the last frame's wrist, in millionths
RawX == (2 * LM(SelectedLandmarks, 0).x - 1000) * 1000

RawY == (0 - (2 * LM(SelectedLandmarks, 0).y - 1000)) * 1000

\* new = old + 0.8 * (raw - old), rounded down
MovedToward(old, new, raw) ==
  /\ 5 * (new - old) <= 4 * (raw - old)
  /\ 4 * (raw - old) < 5 * (new - old) + 5

\* C20: the smoothed position stays in [-1, 1] x [-1, 1]; a valid frame
\* moves it 0.8 of the way to (2x - 1, -(2y - 1)) of the wrist, and a frame
\* without a valid hand leaves it unchanged.
C20_PositionSmoothing ==
  /\ [](/\ -1000000 <= position.x /\ position.x <= 1000000
        /\ -1000000 <= position.y /\ position.y <= 1000000)
  /\ [][OneValidHand' =>
          /\ MovedToward(position.x, position.x', RawX')
          /\ MovedToward(position.y, position.y', RawY')]_vars
  /\ [][lastOp' \in {"nohand", "short"} => position' = position]_vars

\* two frames with the wrist in the top left corner: (-0.96, 0.96)
C20_Witness ==
  /\ OneValidHand
  /\ LM(SelectedLandmarks, 0) = Pt(0, 0)
  /\ position = [x |-> -960000, y |-> 960000]

\* time of the previous valid frame, 0 before the first one
PreviousValidTime ==
  IF Len(validLog) = 0 THEN 0 ELSE validLog[Len(validLog)].timestamp

\* v = 1000 * (new - old) / ms, rounded down
IsVelocity(v, old, new, ms) ==
  /\ ms * v <= 1000 * (new - old)
  /\ 1000 * (new - old) < ms * (v + 1)

\* C21: on a valid frame handVelocity is the change of the smoothed position
\* over max(1 ms, time since the previous valid frame), per second; (0,0) to
\* (0.08,0) in 16 ms gives x = 5.0, and an elapsed time of 0 divides by 1 ms.
C21_VelocityFromElapsed ==
  /\ [][OneValidHand' =>
          LET elapsed == now' - PreviousValidTime
              ms == IF elapsed < 1 THEN 1 ELSE elapsed
          IN /\ IsVelocity(handVelocity'.x, position.x, position'.x, ms)
             /\ IsVelocity(handVelocity'.y, position.y, position'.y, ms)
             /\ elapsed = 0 =>
                  handVelocity'.x = 1000 * (position'.x - position.x)]_vars
  /\ [][(OneValidHand' /\ position = [x |-> 0, y |-> 0]
           /\ position' = [x |-> 80000, y |-> 0]
           /\ now' - PreviousValidTime = 16) =>
          handVelocity' = [x |-> 5000000, y |-> 0]]_vars

\* (0,0) to (0.08,0) in 16 ms, then a second valid frame 0 ms later
C21_Witness ==
  /\ OneValidHand
  /\ Len(validLog) = 2
  /\ validLog[1].position = [x |-> 80000, y |-> 0]
  /\ validLog[1].timestamp = 16
  /\ validLog[2].timestamp = 16
  /\ handVelocity.x = 1000 * (position.x - 80000)
  /\ handVelocity.x # 0

\* C22: the tracking callback never throws, for every frame of zero or more
\* hands, each with any number of landmarks and with or without a handedness
\* entry.
C22_NeverThrows == threw = FALSE

\* C23: a custom pinch threshold set by calibration persists across a reload
\* of the page: it is still the override after the reload.
C23_CalibrationSurvivesReload ==
  [][lastOp' = "reload" => customPinchThreshold' = customPinchThreshold]_vars

\* C24: while the pinch is held on every tick, once the charge meter has
\* reached 80% a shape switch eventually occurs.
C24_HeldPinchSwitches ==
  (pinchChargeLevel >= 80) ~> (lastSwitchTime # undefined)

\* C25: a pinch-triggered switch happens only on an update tick whose pinch
\* is true and whose charge after the increment is at least 0.8; it resets
\* the charge to 0, and a tick advances the shape only when it triggers.
C25_TriggerNeedsCharge ==
  /\ [][lastTriggerTime' # lastTriggerTime =>
          /\ particleOp' = "pinchTick"
          /\ lastUpdate' = now'
          /\ lastTriggerTime' = now'
          /\ pinchChargeLevel + 2 >= 80
          /\ pinchChargeLevel' = 0]_vars
  /\ [][(currentTemplate' # currentTemplate /\ particleOp' # "space") =>
          lastTriggerTime' # lastTriggerTime]_vars

\* a tick has just triggered and advanced the shape
C25_Witness ==
  /\ particleOp = "pinchTick"
  /\ lastTriggerTime = now
  /\ lastSwitchTime = now
  /\ currentTemplate >= 1
  /\ pinchChargeLevel = 0

C27_MTogglesPanel ==
  [][backgroundOp' = "keyM" => isVisible' = ~isVisible]_vars

\* C28: after any sequence of setParticleDensity, setPerformanceMode and
\* adaptive quality steps the background particle count is within 100..2000,
\* and an adaptive step changes it only in the mode 'auto'.
C28_ParticleCountInRange ==
  /\ [](100 <= particleCount /\ particleCount <= 2000)
  /\ [][(backgroundOp' = "update" /\ particleCount' # particleCount) =>
          (performanceMode = "auto" /\ frameCount' = 0)]_vars

\* an adaptive step at low FPS that found the count at its lower limit
C28_Witness ==
  /\ backgroundOp = "update"
  /\ performanceMode = "auto"
  /\ frameCount = 0
  /\ lastFrameTime = now
  /\ currentFPS < 30
  /\ particleCount = 100

\* from landmark b to landmark a of the last frame's hand, <<right, up>>
FrameVector(a, b) ==
  <<LM(SelectedLandmarks, a).x - LM(SelectedLandmarks, b).x,
    LM(SelectedLandmarks, b).y - LM(SelectedLandmarks, a).y>>

\* base-to-tip vector of each digit of the last frame's hand
FrameVectors ==
  [thumb |-> FrameVector(4, 2), index |-> FrameVector(8, 5),
   middle |-> FrameVector(12, 9), ring |-> FrameVector(16, 13),
   pinky |-> FrameVector(20, 17)]

\* the squared length of a vector exceeds the square of t
LongerThan(d, t) == d[1] * d[1] + d[2] * d[2] > t * t

\* C29: on every valid frame each finger state is recomputed from the
\* frame's landmarks alone: thumb extended iff its tip is more than 0.10 from
\* landmark 2, the other digits iff their tip is more than 0.15 from their
\* base; a digit exactly at its threshold is not extended.
C29_FingerThresholds ==
  [][OneValidHand' =>
       LET v == FrameVectors'
       IN /\ fingerStates'.thumb = LongerThan(v.thumb, 100)
          /\ \A f \in Digits \ {"thumb"} :
               fingerStates'[f] = LongerThan(v[f], 150)
          /\ v.thumb \in {<<0, 50>>, <<0, 100>>} => ~fingerStates'.thumb
          /\ v.thumb \in {<<0, 101>>, <<0, 150>>, <<90, 120>>} =>
               fingerStates'.thumb
          /\ \A f \in Digits \ {"thumb"} :
               /\ v[f] \in {<<0, 101>>, <<0, 150>>, <<90, 120>>} =>
                    ~fingerStates'[f]
               /\ v[f] \in {<<0, 151>>, <<100, 112>>} => fingerStates'[f]]_vars

\* all digits exactly 0.15 long on a slant, after a frame with all extended:
\* only the thumb is extended
C29_Witness ==
  /\ OneValidHand
  /\ Len(validLog) = 2
  /\ FrameVectors = [f \in Digits |-> <<90, 120>>]
  /\ fingerStates = [AllRetracted EXCEPT !.thumb = TRUE]
  /\ gestureType = "open_hand"
  /\ gestureConfidence = 8500000 + (80000000 - 8500000) \div 10

\* the valid frames Gesture History holds: the last five at most
HistoryWindow ==
  LastEntries(validLog, IF Len(validLog) < 5 THEN Len(validLog) ELSE 5)

\* max(0, 1 - d / (2 t)) in thousandths, d and t in millionths
DistanceConfidence(d, t) ==
  IF d >= 2 * t THEN 0 ELSE 1000 - (d * 1000) \div (2 * t)

\* C30: on a valid frame the pinch confidence is
\* min(1, max(0, 1 - d/(2t)) + min(0.3, 0.1 p) + s), with d the thumb-index
\* distance, t the effective threshold, p the pinching entries of Gesture
\* History before this frame's entry is appended, and s = 0.2 iff the history
\* has at least 3 entries and its last 3 are pinching; pinch itself is d < t.
C30_PinchConfidence ==
  [][OneValidHand' =>
       LET d == 1000 * FrameDistance'
           t == IF customPinchThreshold = undefined
                THEN ExpectedAdaptive(FramePalmWidth')
                ELSE customPinchThreshold
           window == HistoryWindow
           p == Cardinality({k \in 1..Len(window) : window[k].pinch})
           recent == IF 100 * p < 300 THEN 100 * p ELSE 300
           s == IF Len(window) >= 3
                   /\ window[Len(window)].pinch
                   /\ window[Len(window) - 1].pinch
                   /\ window[Len(window) - 2].pinch
                THEN 200 ELSE 0
           sum == DistanceConfidence(d, t) + recent + s
       IN /\ pinchDetails'.confidence = IF sum < 1000 THEN sum ELSE 1000
          /\ pinch' = (d < t)]_vars

\* an open hand after three pinching frames: both stability terms apply
\* (0.3 + 0.2) and the frame still is no pinch
C30_Witness ==
  /\ OneValidHand
  /\ SelectedLandmarks = OpenPose
  /\ Len(validLog) >= 4
  /\ pinchDetails.confidence = 500
  /\ pinch = FALSE

\* every run of the held pinch has filled the meter when the clock reaches
\* its bound, and has not switched
HeldPinchSaturates ==
  now + 16 > MaxHoldTime =>
    /\ pinchChargeLevel = 100
    /\ isPinchingLastFrame
    /\ lastSwitchTime = undefined

\* a held tick at full charge changes the clock and lastUpdate only, so the
\* held pinch repeats that state for as long as the animation runs
SaturatedHoldRepeats ==
  [][(pinchChargeLevel = 100 /\ isPinchingLastFrame) =>
       UNCHANGED <<gestureVars, backgroundVars, pinchChargeLevel,
                   isPinchingLastFrame, particlesLastPinchTime,
                   currentTemplate, switchCooldown, cooldownTimer,
                   particleOp, lastTriggerTime, lastSwitchTime>>]_vars

====
